---- MODULE Spec2Model ----
(***************************************************************************)
(* Orientation and animation control of the model viewer (src/src/main.js, *)
(* the viewer that starts at line 211): pointer-driven rotation, rule      *)
(* based pitch snapping, the spin / tilt / fade tweens, the action         *)
(* dispatcher and the message bridge of the hosting page.                  *)
(*                                                                         *)
(* Numbers.  The program computes in IEEE doubles; the model computes in   *)
(* fixed point with round-to-nearest:                                      *)
(*   angles    RadScale units per radian (1 unit = 0.0001 rad)             *)
(*   time      TimeScale units per second (1 unit = 50 ms), the value of   *)
(*             performance.now() / 1000                                    *)
(*   progress  t, eased and opacity in TScale-ths (0 .. TScale is 0 .. 1)  *)
(*   lengths   LenScale units per scene unit (1 unit = 0.001)              *)
(***************************************************************************)
EXTENDS Integers, Sequences, FiniteSets, TLC

VARIABLES
    booted,                \* the module body has run (line 680: handler installed)
    loadState,             \* gltfLoader.load: "idle", "loading", "loaded", "failed"
    currentModel,          \* let currentModel: TRUE iff it is not null
    rotation,              \* currentModel.rotation: [x |-> pitch, y |-> yaw]
    isPointerDown,         \* let isPointerDown
    pointerPosition,       \* const pointerPosition: [x, y] in pixels
    thresholds,            \* snapRotationSettings.thresholds: sequence of rules
    snapRotationState,     \* [active, axis, target] (speed and epsilon never change)
    modelIntroState,       \* [fade, spin, tilt] tween channels
    opacity,               \* mat.opacity of the faded materials, in TScale-ths
    pendingIframeActions,  \* const pendingIframeActions = []
    now,                   \* performance.now() / 1000, in time units
    inputsLeft,            \* environment: input events still to come
    earlyActions,          \* history: model-action messages received while no model is current
    replayed,              \* history: queued actions the flush executed on a current model
    camera,                \* const camera: [position, near, far] in length units
    bounds,                \* new THREE.Box3().setFromObject(pivot) of the model file: [min, max]
    meshMaterials,         \* the model file: number of distinct materials on its meshes
    windowLoaded,          \* the window's load event has been delivered
    readySent,             \* number of {type: 'iframe-ready'} messages posted to the parent
    dropped,               \* history: dispatches made after the load failed
    uncaught               \* an exception has left an event handler

vars == << booted, loadState, currentModel, rotation, isPointerDown, pointerPosition,
           thresholds, snapRotationState, modelIntroState, opacity,
           pendingIframeActions, now, inputsLeft, earlyActions, replayed,
           camera, bounds, meshMaterials, windowLoaded, readySent, dropped, uncaught >>

-----------------------------------------------------------------------------
(* Units and bounds *)

RadScale == 10000
TimeScale == 20
TScale == 1000
LenScale == 1000

\* Environment bounds
MaxInputs == 3
MaxTime == 60

\* round(n / d) for d > 0 (half up)
RoundDiv(n, d) == (2 * n + d) \div (2 * d)

Abs(v) == IF v < 0 THEN -v ELSE v

\* THREE.MathUtils.clamp(value, min, max) = Math.max(min, Math.min(max, value))
Min(a, b) == IF a < b THEN a ELSE b
Max(a, b) == IF a > b THEN a ELSE b
clamp(value, lo, hi) == Max(lo, Min(hi, value))

\* Math.PI in angle units
PI == 31416

\* THREE.MathUtils.degToRad for an angle given in tenths of a degree
\* (degrees * PI / 180)
degToRadTenths(d10) == RoundDiv(d10 * PI, 1800)

\* THREE.MathUtils.degToRad(degrees) for whole degrees
degToRad(degrees) == degToRadTenths(10 * degrees)

\* a literal number of seconds n/d, in time units
Seconds(n, d) == (n * TimeScale) \div d

-----------------------------------------------------------------------------
(* Configuration: snapRotationSettings, snapRotationState, dragRotationSpeed *)

\* dragRotationSpeed = 0.005 rad per pixel, in angle units per pixel
dragRotationSpeed == (5 * RadScale) \div 1000

\* snapRotationSettings.clampDeg
clampDeg == [min |-> -45, max |-> 110]

\* snapRotationSettings.thresholds as configured
ConfiguredThresholds ==
    << [when |-> "greater", thresholdDeg |-> 25, snapDeg |-> 90],
       [when |-> "less",    thresholdDeg |-> 5,  snapDeg |-> 0] >>

\* snapRotationState.speed = 0.15, in hundredths
SnapSpeedPct == 15

\* snapRotationState.epsilon = degToRad(0.5)
SnapEpsilon == degToRadTenths(5)

-----------------------------------------------------------------------------
(* The mutable program state as one record, so that handlers compose *)

World ==
    [ currentModel      |-> currentModel,
      rotation          |-> rotation,
      isPointerDown     |-> isPointerDown,
      pointerPosition   |-> pointerPosition,
      snapRotationState |-> snapRotationState,
      modelIntroState   |-> modelIntroState,
      opacity           |-> opacity,
      camera            |-> camera,
      uncaught          |-> uncaught ]

\* the handler's result becomes the next state
Commit(w) ==
    \E v \in {w} :
        /\ currentModel' = v.currentModel
        /\ rotation' = v.rotation
        /\ isPointerDown' = v.isPointerDown
        /\ pointerPosition' = v.pointerPosition
        /\ snapRotationState' = v.snapRotationState
        /\ modelIntroState' = v.modelIntroState
        /\ opacity' = v.opacity
        /\ camera' = v.camera
        /\ uncaught' = v.uncaught

-----------------------------------------------------------------------------
(* applyRotationSnap, lines 413-449 *)

\* mutant: the 'greater' and 'less' comparisons are strict
RuleMatches_Strict(rule, value) ==
    LET thresholdRad == degToRad(rule.thresholdDeg)
        snapRad == degToRad(rule.snapDeg)
    IN  \/ rule.when = "greater" /\ value > thresholdRad
        \/ rule.when = "less" /\ value < thresholdRad
        \/ rule.when \in {"", "close"} /\ Abs(value - snapRad) <= thresholdRad

\* the three predicates tested for one rule inside the loop
RuleMatches(rule, value) ==
    LET thresholdRad == degToRad(rule.thresholdDeg)
        snapRad == degToRad(rule.snapDeg)
    IN  \/ rule.when = "greater" /\ value >= thresholdRad
        \/ rule.when = "less" /\ value <= thresholdRad
        \/ rule.when \in {"", "close"} /\ Abs(value - snapRad) <= thresholdRad

\* mutant: the loop does not return at a match, the last matching rule wins
RECURSIVE SnapLoop_LastWins(_, _, _)
SnapLoop_LastWins(rules, value, i) ==
    IF i > Len(rules) THEN 0
    ELSE LET later == SnapLoop_LastWins(rules, value, i + 1)
         IN  IF later # 0 THEN later
             ELSE IF RuleMatches(rules[i], value) THEN i ELSE 0

\* the for-of loop: index of the rule at which the loop returns, 0 if it runs out
RECURSIVE SnapLoop(_, _, _)
SnapLoop(rules, value, i) ==
    IF i > Len(rules) THEN 0
    ELSE IF RuleMatches(rules[i], value) THEN i
    ELSE SnapLoop(rules, value, i + 1)

\* mutant: when no rule matches the state is left as it was
applyRotationSnap_KeepsStale(w) ==
    IF ~w.currentModel \/ SnapLoop(thresholds, w.rotation.x, 1) = 0 THEN w
    ELSE [w EXCEPT !.snapRotationState =
             [active |-> TRUE, axis |-> "x",
              target |-> degToRad(thresholds[SnapLoop(thresholds, w.rotation.x, 1)].snapDeg)]]

\* mutant: the snap goes to the rule's threshold instead of its snap angle
applyRotationSnap_SnapsToThreshold(w) ==
    IF ~w.currentModel THEN w
    ELSE
        LET hit == SnapLoop(thresholds, w.rotation.x, 1)
        IN  IF hit # 0
            THEN [w EXCEPT !.snapRotationState =
                     [active |-> TRUE, axis |-> "x",
                      target |-> degToRad(thresholds[hit].thresholdDeg)]]
            ELSE [w EXCEPT !.snapRotationState.active = FALSE]

\* snapRotationSettings.enabled is the constant true, so the early return is
\* taken only when no model is current
applyRotationSnap(w) ==
    IF ~w.currentModel THEN w
    ELSE
        LET axis == "x"
            value == w.rotation[axis]
            hit == SnapLoop(thresholds, value, 1)
        IN  IF hit # 0
            THEN [w EXCEPT !.snapRotationState =
                     [active |-> TRUE, axis |-> axis,
                      target |-> degToRad(thresholds[hit].snapDeg)]]
            ELSE [w EXCEPT !.snapRotationState.active = FALSE]

-----------------------------------------------------------------------------
(* The loaded scene *)

\* Box3.isEmpty: the box of an object without geometry has min > max
isEmpty(box) ==
    box.max.x < box.min.x \/ box.max.y < box.min.y \/ box.max.z < box.min.z

\* the model files: the meshes of a file carry materials or none (a file of
\* points or lines, a mesh without material), whatever its box is
MaterialCounts == {0, 1}

-----------------------------------------------------------------------------
(* Tweens, lines 451-567 *)

\* easeInOutCubic(t), t and the result in TScale-ths
easeInOutCubic(t) ==
    IF 2 * t < TScale
    THEN RoundDiv(4 * t * t * t, TScale * TScale)
    ELSE LET u == 2 * TScale - 2 * t
         IN  TScale - RoundDiv(u * u * u, 2 * TScale * TScale)

\* t = clamp(elapsed / duration, 0, 1) in TScale-ths
Progress(start, duration, time) ==
    clamp(((time - start) * TScale) \div duration, 0, TScale)

\* from + (to - from) * eased
Lerp(from, to, eased) == from + RoundDiv((to - from) * eased, TScale)

\* mutant: the target is the amount itself, not relative to the current yaw
startSpin_Absolute(w, amount, duration, resetToZero, time) ==
    IF ~w.currentModel THEN w
    ELSE [w EXCEPT !.rotation.y = IF resetToZero THEN 0 ELSE @,
                   !.modelIntroState.spin =
                       [active |-> TRUE, start |-> time, duration |-> duration,
                        from |-> IF resetToZero THEN 0 ELSE w.rotation.y,
                        to |-> amount]]

startSpin(w, amount, duration, resetToZero, time) ==
    IF ~w.currentModel THEN w
    ELSE IF resetToZero
    THEN [w EXCEPT !.rotation.y = 0,
                   !.modelIntroState.spin =
                       [active |-> TRUE, start |-> time, duration |-> duration,
                        from |-> 0, to |-> amount]]
    ELSE [w EXCEPT !.modelIntroState.spin =
                       [active |-> TRUE, start |-> time, duration |-> duration,
                        from |-> w.rotation.y, to |-> w.rotation.y + amount]]

\* mutant: a start is ignored while the channel is active
startTilt_NoRestart(w, targetDegrees, duration, time) ==
    IF ~w.currentModel \/ w.modelIntroState.tilt.active THEN w
    ELSE [w EXCEPT !.modelIntroState.tilt =
                       [active |-> TRUE, start |-> time, duration |-> duration,
                        from |-> w.rotation.x,
                        to |-> clamp(degToRad(targetDegrees), degToRad(clampDeg.min),
                                     degToRad(clampDeg.max))]]

\* mutant: the tween starts from upright instead of the current pitch
startTilt_FromZero(w, targetDegrees, duration, time) ==
    IF ~w.currentModel THEN w
    ELSE [w EXCEPT !.modelIntroState.tilt =
                       [active |-> TRUE, start |-> time, duration |-> duration,
                        from |-> 0,
                        to |-> clamp(degToRad(targetDegrees), degToRad(clampDeg.min),
                                     degToRad(clampDeg.max))]]

startTilt(w, targetDegrees, duration, time) ==
    IF ~w.currentModel THEN w
    ELSE
        LET targetRadians == degToRad(targetDegrees)
            clampedTarget == clamp(targetRadians, degToRad(clampDeg.min), degToRad(clampDeg.max))
        IN  [w EXCEPT !.modelIntroState.tilt =
                          [active |-> TRUE, start |-> time, duration |-> duration,
                           from |-> w.rotation.x, to |-> clampedTarget]]

\* mutant: the materials are not made transparent, only the spin starts
startModelIntroAnimation_NoFade(w, time) ==
    startSpin([w EXCEPT !.modelIntroState.fade.materials = meshMaterials],
              2 * PI, Seconds(3, 1), TRUE, time)

startModelIntroAnimation(w, time) ==
    LET materials == meshMaterials
        faded == [w EXCEPT !.opacity = IF materials > 0 THEN 0 ELSE @,
                           !.modelIntroState.fade.active = TRUE,
                           !.modelIntroState.fade.start = time,
                           !.modelIntroState.fade.materials = materials]
    IN  startSpin(faded, 2 * PI, Seconds(3, 1), TRUE, time)

\* mutant: the finished fade is not deactivated
updateFade_NeverFinishes(w, time) ==
    LET fade == w.modelIntroState.fade IN
    IF ~fade.active \/ fade.materials = 0 THEN w
    ELSE [w EXCEPT !.opacity =
              easeInOutCubic(Progress(fade.start, fade.duration, time))]

updateFade(w, time) ==
    LET fade == w.modelIntroState.fade IN
    IF ~fade.active THEN w
    ELSE
        LET t == Progress(fade.start, fade.duration, time)
            eased == easeInOutCubic(t)
        IN  IF fade.materials = 0
            THEN [w EXCEPT !.modelIntroState.fade.active = (t < TScale)]
            ELSE IF t >= TScale
            THEN [w EXCEPT !.modelIntroState.fade.active = FALSE, !.opacity = TScale]
            ELSE [w EXCEPT !.opacity = IF eased >= TScale /\ eased > TScale THEN TScale ELSE eased]

\* mutant: the spin channel is never deactivated
updateSpin_NeverFinishes(w, time) ==
    LET spin == w.modelIntroState.spin IN
    IF ~spin.active THEN w
    ELSE
        LET t == Progress(spin.start, spin.duration, time)
            eased == easeInOutCubic(t)
        IN  IF t >= TScale
            THEN [w EXCEPT !.rotation.y = spin.to]
            ELSE [w EXCEPT !.rotation.y = Lerp(spin.from, spin.to, eased)]

updateSpin(w, time) ==
    LET spin == w.modelIntroState.spin IN
    IF ~spin.active THEN w
    ELSE
        LET t == Progress(spin.start, spin.duration, time)
            eased == easeInOutCubic(t)
        IN  IF t >= TScale
            THEN [w EXCEPT !.modelIntroState.spin.active = FALSE, !.rotation.y = spin.to]
            ELSE [w EXCEPT !.rotation.y = Lerp(spin.from, spin.to, eased)]

\* mutant: the finished tween is neither pinned nor deactivated
updateTilt_NeverFinishes(w, time) ==
    LET tilt == w.modelIntroState.tilt IN
    IF ~tilt.active THEN w
    ELSE [w EXCEPT !.rotation.x =
              Lerp(tilt.from, tilt.to,
                   easeInOutCubic(Progress(tilt.start, tilt.duration, time)))]

updateTilt(w, time) ==
    LET tilt == w.modelIntroState.tilt IN
    IF ~tilt.active THEN w
    ELSE
        LET t == Progress(tilt.start, tilt.duration, time)
            eased == easeInOutCubic(t)
        IN  IF t >= TScale
            THEN [w EXCEPT !.modelIntroState.tilt.active = FALSE, !.rotation.x = tilt.to]
            ELSE [w EXCEPT !.rotation.x = Lerp(tilt.from, tilt.to, eased)]

\* the fade, spin and tilt blocks in program order, each on the result of
\* the one before
updateModelAnimations(w, time) ==
    IF ~w.currentModel THEN w
    ELSE CHOOSE r \in { updateTilt(s, time) :
                           s \in { updateSpin(f, time) :
                                     f \in { updateFade(w, time) } } } : TRUE

-----------------------------------------------------------------------------
(* Pointer handlers, lines 572-612 *)

\* mutant: the drag starts whether or not a model is current
onPointerDown_NoGuard(w, event, captureThrows) ==
    [w EXCEPT !.isPointerDown = TRUE,
              !.snapRotationState.active = FALSE,
              !.pointerPosition = [x |-> event.clientX, y |-> event.clientY],
              !.uncaught = @ \/ captureThrows]

\* mutant: a snap in progress is not stopped
onPointerDown_KeepsSnap(w, event, captureThrows) ==
    IF ~w.currentModel THEN w
    ELSE [w EXCEPT !.isPointerDown = TRUE,
                   !.pointerPosition = [x |-> event.clientX, y |-> event.clientY],
                   !.uncaught = @ \/ captureThrows]

\* setPointerCapture (line 578) is the last statement and is not inside a
\* try block: when it throws, the exception leaves the listener after the
\* assignments of lines 574-577 have been made
onPointerDown(w, event, captureThrows) ==
    IF ~w.currentModel THEN w
    ELSE [w EXCEPT !.isPointerDown = TRUE,
                   !.snapRotationState.active = FALSE,
                   !.pointerPosition = [x |-> event.clientX, y |-> event.clientY],
                   !.uncaught = @ \/ captureThrows]

\* mutant: the step is applied whether or not a drag is in progress
onPointerMove_WhileIdle(w, event) ==
    IF ~w.currentModel THEN w
    ELSE [w EXCEPT !.rotation.y = @ + (event.clientX - w.pointerPosition.x) * dragRotationSpeed,
                   !.rotation.x = clamp(@ + (event.clientY - w.pointerPosition.y) * dragRotationSpeed,
                                        degToRad(clampDeg.min), degToRad(clampDeg.max)),
                   !.pointerPosition = [x |-> event.clientX, y |-> event.clientY]]

\* mutant: the pitch is not clamped after the drag step
onPointerMove_Unclamped(w, event) ==
    IF ~w.isPointerDown \/ ~w.currentModel THEN w
    ELSE [w EXCEPT !.rotation.y = @ + (event.clientX - w.pointerPosition.x) * dragRotationSpeed,
                   !.rotation.x = @ + (event.clientY - w.pointerPosition.y) * dragRotationSpeed,
                   !.pointerPosition = [x |-> event.clientX, y |-> event.clientY]]

\* mutant: a drag step stops the spin and tilt tweens
onPointerMove_CancelsTweens(w, event) ==
    IF ~w.isPointerDown \/ ~w.currentModel THEN w
    ELSE
        LET deltaX == event.clientX - w.pointerPosition.x
            deltaY == event.clientY - w.pointerPosition.y
            minRad == degToRad(clampDeg.min)
            maxRad == degToRad(clampDeg.max)
        IN  [w EXCEPT !.rotation.y = @ + deltaX * dragRotationSpeed,
                      !.rotation.x = clamp(@ + deltaY * dragRotationSpeed, minRad, maxRad),
                      !.pointerPosition = [x |-> event.clientX, y |-> event.clientY],
                      !.modelIntroState.spin.active = FALSE,
                      !.modelIntroState.tilt.active = FALSE]

onPointerMove(w, event) ==
    IF ~w.isPointerDown \/ ~w.currentModel THEN w
    ELSE
        LET deltaX == event.clientX - w.pointerPosition.x
            deltaY == event.clientY - w.pointerPosition.y
            minRad == degToRad(clampDeg.min)
            maxRad == degToRad(clampDeg.max)
        IN  [w EXCEPT !.rotation.y = @ + deltaX * dragRotationSpeed,
                      !.rotation.x = clamp(@ + deltaY * dragRotationSpeed, minRad, maxRad),
                      !.pointerPosition = [x |-> event.clientX, y |-> event.clientY]]

\* mutant: no try / catch around releasePointerCapture
onPointerUp_Propagates(w, releaseThrows) ==
    LET snapped == applyRotationSnap([w EXCEPT !.isPointerDown = FALSE])
    IN  IF releaseThrows THEN [snapped EXCEPT !.uncaught = TRUE] ELSE snapped

\* releasePointerCapture may throw (the pointer is not captured); it is the
\* last statement and the catch block is empty
onPointerUp(w, releaseThrows) ==
    LET snapped == applyRotationSnap([w EXCEPT !.isPointerDown = FALSE])
    IN  IF releaseThrows THEN snapped ELSE snapped

onPointerLeave(w) ==
    applyRotationSnap([w EXCEPT !.isPointerDown = FALSE])

-----------------------------------------------------------------------------
(* frameObject, lines 755-778 *)

\* 2 * Math.tan(fov / 2) for camera.fov = 60 (line 257), in ten-thousandths
TwoTanHalfFov == 11547

\* box.getSize: (0, 0, 0) for an empty box, else max - min on each axis
getSize(box) ==
    IF isEmpty(box) THEN [x |-> 0, y |-> 0, z |-> 0]
    ELSE [x |-> box.max.x - box.min.x,
          y |-> box.max.y - box.min.y,
          z |-> box.max.z - box.min.z]

\* distance = maxDim / (2 * Math.tan(fov / 2)), then distance *= 1.5
cameraDistance(maxDim) == RoundDiv(maxDim * 15 * 1000, TwoTanHalfFov)

\* controls.minDistance = 0.1 and controls.maxDistance = 1000, lines 287-288
minDistance == LenScale \div 10
maxDistance == 1000 * LenScale

\* floor of the square root
Isqrt(n) == CHOOSE r \in 0..46339 : r * r <= n /\ n < (r + 1) * (r + 1)

\* Vector3.length of the offset of the camera from controls.target
Length(v) ==
    IF v.x = 0 /\ v.y = 0 THEN Abs(v.z)
    ELSE IF v.x = 0 /\ v.z = 0 THEN Abs(v.y)
    ELSE IF v.y = 0 /\ v.z = 0 THEN Abs(v.x)
    ELSE Isqrt(v.x * v.x + v.y * v.y + v.z * v.z)

\* controls.update() of OrbitControls with damping and no user input
\* (controls.enabled = false, line 292): the offset of the camera from the
\* target (0, 0, 0) is turned into spherical coordinates, the polar angle is
\* kept off the poles by 1e-6 (makeSafe), the radius is clamped to
\* [minDistance, maxDistance] and the camera is put back at target + offset.
\* An offset of length 0 has polar angle 0 and comes back as (0, radius, 0).
controlsUpdate(w) ==
    LET offset == w.camera.position
        radius == Length(offset)
        clamped == clamp(radius, minDistance, maxDistance)
        scaled(c) == IF Abs(c) = radius THEN (IF c < 0 THEN -clamped ELSE clamped)
                     ELSE IF radius < minDistance THEN RoundDiv(c * clamped, radius)
                     ELSE RoundDiv(c * 1000, radius \div 1000)
    IN  IF radius = 0
        THEN [w EXCEPT !.camera.position = [x |-> 0, y |-> clamped, z |-> 0]]
        ELSE IF clamped = radius THEN w
        ELSE [w EXCEPT !.camera.position =
                 [x |-> scaled(offset.x), y |-> scaled(offset.y), z |-> scaled(offset.z)]]

\* mutant: the far plane follows the distance without the floor of 2000
frameObject_NoFarFloor(w) ==
    LET size == getSize(bounds)
        distance == cameraDistance(Max(size.x, Max(size.y, size.z)))
    IN  controlsUpdate([w EXCEPT !.camera =
            [position |-> [x |-> 0, y |-> 0, z |-> distance],
             near |-> Max(RoundDiv(distance, 1000), LenScale \div 100),
             far |-> distance * 100]])

frameObject(w) ==
    LET size == getSize(bounds)
        maxDim == Max(size.x, Max(size.y, size.z))
        distance == cameraDistance(maxDim)
    IN  controlsUpdate([w EXCEPT !.camera =
            [position |-> [x |-> 0, y |-> 0, z |-> distance],
             near |-> Max(RoundDiv(distance, 1000), LenScale \div 100),
             far |-> Max(distance * 100, 2000 * LenScale)]])

-----------------------------------------------------------------------------
(* handleModelAction, lines 623-677 *)

\* mutant: the reset also stops the spin and tilt tweens
resetView_CancelsTweens(s) ==
    frameObject([s EXCEPT !.rotation = [x |-> 0, y |-> 0],
                          !.modelIntroState.spin.active = FALSE,
                          !.modelIntroState.tilt.active = FALSE])

\* mutant: only the pitch is reset
resetView_PitchOnly(s) == frameObject([s EXCEPT !.rotation.x = 0])

\* case 'reset-view', lines 632-638 (currentModel.position and
\* controls.target are (0, 0, 0) throughout)
resetView(s) == frameObject([s EXCEPT !.rotation = [x |-> 0, y |-> 0]])

\* the switch, lines 631-676
dispatchAction(s, action, time) ==
    CASE action = "reset-view"   -> resetView(s)
      [] action = "spin"         -> startSpin(s, 2 * PI, Seconds(2, 1), FALSE, time)
      [] action = "turn-left"    -> startSpin(s, -(PI \div 2), Seconds(125, 100), FALSE, time)
      [] action = "turn-right"   -> startSpin(s, PI \div 2, Seconds(125, 100), FALSE, time)
      [] action = "tilt-forward" -> startTilt(s, Min(25, clampDeg.max), Seconds(1, 1), time)
      [] action = "tilt-back"    -> startTilt(s, Max(-25, clampDeg.min), Seconds(1, 1), time)
      [] action = "tilt-neutral" -> startTilt(s, 0, Seconds(9, 10), time)
      [] OTHER                   -> s

\* mutant: the tilt actions do not cancel the snap
handleModelAction_TiltKeepsSnap(w, action, time) ==
    IF ~w.currentModel THEN w
    ELSE IF action \in {"tilt-forward", "tilt-back", "tilt-neutral"}
    THEN dispatchAction(w, action, time)
    ELSE dispatchAction([w EXCEPT !.snapRotationState.active = FALSE], action, time)

\* mutant: the snap is cancelled only by the actions the switch knows
handleModelAction_KnownCancel(w, action, time) ==
    IF ~w.currentModel THEN w
    ELSE IF action \in {"reset-view", "spin", "turn-left", "turn-right",
                        "tilt-forward", "tilt-back", "tilt-neutral"}
    THEN dispatchAction([w EXCEPT !.snapRotationState.active = FALSE], action, time)
    ELSE w

\* mutant: the snap is not cancelled before the switch
handleModelAction_KeepSnap(w, action, time) ==
    IF ~w.currentModel THEN w
    ELSE dispatchAction(w, action, time)

\* mutant: a spin requested while a spin is running is added to its target
handleModelAction_Accumulates(w, action, time) ==
    IF ~w.currentModel THEN w
    ELSE LET s == dispatchAction([w EXCEPT !.snapRotationState.active = FALSE],
                                 action, time)
         IN  IF action = "spin" /\ w.modelIntroState.spin.active
             THEN [s EXCEPT !.modelIntroState.spin.to =
                                w.modelIntroState.spin.to + 2 * PI]
             ELSE s

handleModelAction(w, action, time) ==
    IF ~w.currentModel THEN w
    ELSE dispatchAction([w EXCEPT !.snapRotationState.active = FALSE], action, time)

-----------------------------------------------------------------------------
(* updateSnapRotation, lines 686-707 *)

\* mutant: the snap step is applied to the yaw
updateSnapRotation_OnYaw(w) ==
    IF ~w.snapRotationState.active \/ ~w.currentModel THEN w
    ELSE
        LET delta == w.snapRotationState.target - w.rotation.y
        IN  IF Abs(delta) <= SnapEpsilon
            THEN [w EXCEPT !.rotation.y = w.snapRotationState.target,
                           !.snapRotationState.active = FALSE]
            ELSE [w EXCEPT !.rotation.y =
                     clamp(@ + RoundDiv(delta * SnapSpeedPct, 100),
                           degToRad(clampDeg.min), degToRad(clampDeg.max))]

\* mutant: no epsilon test, the pitch is never pinned to the target
updateSnapRotation_NoPin(w) ==
    IF ~w.snapRotationState.active \/ ~w.currentModel THEN w
    ELSE
        LET axis == w.snapRotationState.axis
            delta == w.snapRotationState.target - w.rotation[axis]
        IN  [w EXCEPT !.rotation[axis] =
                 clamp(@ + RoundDiv(delta * SnapSpeedPct, 100),
                       degToRad(clampDeg.min), degToRad(clampDeg.max))]

updateSnapRotation(w) ==
    IF ~w.snapRotationState.active \/ ~w.currentModel THEN w
    ELSE
        LET axis == w.snapRotationState.axis
            current == w.rotation[axis]
            target == w.snapRotationState.target
            delta == target - current
            minRad == degToRad(clampDeg.min)
            maxRad == degToRad(clampDeg.max)
        IN  IF Abs(delta) <= SnapEpsilon
            THEN [w EXCEPT !.rotation[axis] = target,
                           !.snapRotationState.active = FALSE]
            ELSE [w EXCEPT !.rotation[axis] =
                     clamp(current + RoundDiv(delta * SnapSpeedPct, 100), minRad, maxRad)]

-----------------------------------------------------------------------------
(* Environment: the inputs the model draws from *)

\* action names: the seven of the switch and one outside it
KnownActions == {"reset-view", "spin", "turn-left", "turn-right",
                 "tilt-forward", "tilt-back", "tilt-neutral"}
ActionNames == KnownActions \cup {"zoom"}

\* event.data of a message: a model-action request, another type, or nothing
MessageActions == {"spin", "tilt-forward", "zoom"}
Payloads == [type : {"model-action"}, action : MessageActions]
            \cup {[type |-> "resize", action |-> "spin"], [type |-> "", action |-> ""]}

\* pointer events: clientX / clientY of pointerdown and of pointermove
DownEvents == { [clientX |-> 0, clientY |-> 0],
                [clientX |-> 0, clientY |-> 500] }
MoveEvents == DownEvents \cup { [clientX |-> 100, clientY |-> 40],
                                [clientX |-> 0,   clientY |-> 105] }

\* time between two reads of the clock, in time units
ClockSteps == {15}

\* a box centred on the origin (the load callback recentres the mesh,
\* lines 818-821) with the given half extents, in length units
CentredBox(hx, hy, hz) ==
    [min |-> [x |-> -hx, y |-> -hy, z |-> -hz],
     max |-> [x |-> hx, y |-> hy, z |-> hz]]

\* bounding box of the model file: (-1, -1, -1) .. (1, 1, 1)
ModelBox == CentredBox(LenScale, LenScale, LenScale)

\* const camera = new THREE.PerspectiveCamera(60, aspect, 0.01, 2000),
\* camera.position.set(0, 0, 5), lines 256-262
InitialCamera ==
    [position |-> [x |-> 0, y |-> 0, z |-> 5 * LenScale],
     near |-> LenScale \div 100,
     far |-> 2000 * LenScale]

-----------------------------------------------------------------------------
(* Initial state: the module body is about to run its last part (line 679);
   the first message listener (line 226) is registered, no event has been
   delivered yet *)

Init ==
    /\ booted = FALSE
    /\ loadState = "idle"
    /\ currentModel = FALSE
    /\ rotation = [x |-> 0, y |-> 0]
    /\ isPointerDown = FALSE
    /\ pointerPosition = [x |-> 0, y |-> 0]
    /\ thresholds = ConfiguredThresholds
    /\ snapRotationState = [active |-> FALSE, axis |-> "x", target |-> 0]
    /\ modelIntroState =
         [fade |-> [active |-> FALSE, start |-> 0, duration |-> Seconds(15, 10),
                    materials |-> 0],
          spin |-> [active |-> FALSE, start |-> 0, duration |-> Seconds(3, 1),
                    from |-> 0, to |-> 2 * PI],
          tilt |-> [active |-> FALSE, start |-> 0, duration |-> Seconds(15, 10),
                    from |-> 0, to |-> 0]]
    /\ opacity = TScale
    /\ pendingIframeActions = << >>
    /\ now = 0
    /\ inputsLeft = MaxInputs
    /\ earlyActions = << >>
    /\ replayed = << >>
    /\ camera = InitialCamera
    /\ bounds = ModelBox
    /\ meshMaterials \in MaterialCounts
    /\ windowLoaded = FALSE
    /\ readySent = 0
    /\ dropped = 0
    /\ uncaught = FALSE

-----------------------------------------------------------------------------
(* Actions *)

\* pendingIframeActions.splice(0).forEach(handleModelAction), lines 681-684
RECURSIVE Flush(_, _, _)
Flush(w, queue, time) ==
    IF queue = << >> THEN w
    ELSE Flush(handleModelAction(w, Head(queue), time), Tail(queue), time)

\* Lines 679-728 and 894-920: install the handler, flush the queue, register
\* the second message listener, post iframe-ready to the parent (window.parent
\* is never null), request the model, start the frame loop.
\* One task of the event loop: no event is delivered in between.
ModuleBody ==
    /\ ~booted
    /\ booted' = TRUE
    /\ Commit(Flush(World, pendingIframeActions, now))
    /\ replayed' = IF currentModel THEN replayed \o pendingIframeActions ELSE replayed
    /\ pendingIframeActions' = << >>
    /\ readySent' = readySent + 1
    /\ loadState' = "loading"
    /\ UNCHANGED << thresholds, now, inputsLeft, earlyActions, bounds, meshMaterials, windowLoaded,
                    dropped >>

\* the window's load event, listener of lines 239-242: fires once, after the
\* module body has run
WindowLoad ==
    /\ booted /\ ~windowLoaded
    /\ windowLoaded' = TRUE
    /\ readySent' = readySent + 1
    /\ UNCHANGED << booted, loadState, currentModel, rotation, isPointerDown,
                    pointerPosition, thresholds, snapRotationState, modelIntroState,
                    opacity, pendingIframeActions, now, inputsLeft, earlyActions,
                    replayed, camera, uncaught, bounds, meshMaterials, dropped >>

\* gltfLoader.load success callback, lines 795-880
LoadSuccess ==
    /\ booted /\ loadState = "loading"
    /\ loadState' = "loaded"
    /\ LET cleared == [World EXCEPT !.currentModel = TRUE,
                                    !.rotation = [x |-> 0, y |-> 0],
                                    !.modelIntroState.fade.active = FALSE,
                                    !.modelIntroState.fade.materials = 0,
                                    !.modelIntroState.spin.active = FALSE,
                                    !.modelIntroState.tilt.active = FALSE]
       IN  Commit(startModelIntroAnimation(frameObject(cleared), now))
    /\ UNCHANGED << booted, thresholds, pendingIframeActions, now, inputsLeft,
                    earlyActions, replayed, bounds, meshMaterials, windowLoaded, readySent, dropped >>

\* gltfLoader.load error callback, lines 885-889
LoadError ==
    /\ booted /\ loadState = "loading"
    /\ loadState' = "failed"
    /\ UNCHANGED << booted, currentModel, rotation, isPointerDown, pointerPosition,
                    thresholds, snapRotationState, modelIntroState, opacity,
                    pendingIframeActions, now, inputsLeft, earlyActions, replayed,
                    camera, uncaught, bounds, meshMaterials, windowLoaded, readySent, dropped >>

\* an input event is delivered: one unit of the environment's budget
Input ==
    /\ booted
    /\ inputsLeft > 0
    /\ inputsLeft' = inputsLeft - 1
    /\ UNCHANGED << booted, loadState, thresholds, now, bounds, meshMaterials, windowLoaded, readySent >>

PointerDown ==
    /\ Input
    /\ \E event \in DownEvents, captureThrows \in BOOLEAN :
           Commit(onPointerDown(World, event, captureThrows))
    /\ UNCHANGED << pendingIframeActions, earlyActions, replayed, dropped >>

PointerMove ==
    /\ Input
    /\ \E event \in MoveEvents : Commit(onPointerMove(World, event))
    /\ UNCHANGED << pendingIframeActions, earlyActions, replayed, dropped >>

\* pointerup and pointercancel both run onPointerUp
PointerUp ==
    /\ Input
    /\ \E releaseThrows \in BOOLEAN : Commit(onPointerUp(World, releaseThrows))
    /\ UNCHANGED << pendingIframeActions, earlyActions, replayed, dropped >>

PointerLeave ==
    /\ Input
    /\ Commit(onPointerLeave(World))
    /\ UNCHANGED << pendingIframeActions, earlyActions, replayed, dropped >>

\* handleModelAction(action) called once, from a click on a
\* [data-model-action] button, lines 614-619
Dispatch(action) ==
    /\ Input
    /\ Commit(handleModelAction(World, action, now))
    /\ dropped' = IF loadState = "failed" THEN dropped + 1 ELSE dropped
    /\ UNCHANGED << pendingIframeActions, earlyActions, replayed >>

Click == \E action \in ActionNames : Dispatch(action)

\* mutant: the first listener pushes every request to the queue as well
Deliver_AlwaysQueues(payload) ==
    /\ Input
    /\ IF payload.type # "model-action"
       THEN UNCHANGED << currentModel, rotation, isPointerDown, pointerPosition,
                         snapRotationState, modelIntroState, opacity, camera, uncaught,
                         pendingIframeActions, earlyActions, dropped >>
       ELSE
          /\ \E first \in { handleModelAction(World, payload.action, now) } :
                 Commit(handleModelAction(first, payload.action, now))
          /\ pendingIframeActions' = Append(pendingIframeActions, payload.action)
          /\ earlyActions' =
               IF currentModel THEN earlyActions
               ELSE Append(earlyActions, payload.action)
          /\ dropped' = IF loadState = "failed" THEN dropped + 2 ELSE dropped
    /\ UNCHANGED replayed

\* mutant: a request that finds no model is kept in the queue
Deliver_QueuesLate(payload) ==
    /\ Input
    /\ IF payload.type # "model-action"
       THEN UNCHANGED << currentModel, rotation, isPointerDown, pointerPosition,
                         snapRotationState, modelIntroState, opacity, camera, uncaught,
                         pendingIframeActions, earlyActions, dropped >>
       ELSE
          /\ \E first \in { handleModelAction(World, payload.action, now) } :
                 Commit(handleModelAction(first, payload.action, now))
          /\ pendingIframeActions' =
               IF currentModel THEN pendingIframeActions
               ELSE Append(pendingIframeActions, payload.action)
          /\ earlyActions' =
               IF currentModel THEN earlyActions
               ELSE Append(earlyActions, payload.action)
          /\ dropped' = IF loadState = "failed" THEN dropped + 2 ELSE dropped
    /\ UNCHANGED replayed

\* mutant: the listeners do not look at the type of the payload
Deliver_AnyType(payload) ==
    /\ Input
    /\ \E first \in { handleModelAction(World, payload.action, now) } :
           Commit(handleModelAction(first, payload.action, now))
    /\ earlyActions' =
         IF currentModel THEN earlyActions
         ELSE Append(earlyActions, payload.action)
    /\ dropped' = IF loadState = "failed" THEN dropped + 2 ELSE dropped
    /\ UNCHANGED << pendingIframeActions, replayed >>

\* a message event: the listener of line 226, then the listener of line 714
\* (registered by the module body)
Deliver(payload) ==
    /\ Input
    /\ IF payload.type # "model-action"
       THEN UNCHANGED << currentModel, rotation, isPointerDown, pointerPosition,
                         snapRotationState, modelIntroState, opacity, camera, uncaught,
                         pendingIframeActions, earlyActions, dropped >>
       ELSE
          /\ \E first \in { IF booted
                              THEN handleModelAction(World, payload.action, now)
                              ELSE World } :
                 Commit(handleModelAction(first, payload.action, now))
          /\ pendingIframeActions' =
               IF booted THEN pendingIframeActions
               ELSE Append(pendingIframeActions, payload.action)
          /\ earlyActions' =
               IF currentModel THEN earlyActions
               ELSE Append(earlyActions, payload.action)
          /\ dropped' = IF loadState = "failed" THEN dropped + 2 ELSE dropped
    /\ UNCHANGED replayed

Message == \E payload \in Payloads : Deliver(payload)

\* mutant: the tweens are updated before the snap step
Tick_TweensFirst ==
    /\ booted
    /\ \E updated \in { controlsUpdate(World) } :
       \E tweened \in { updateModelAnimations(updated, now) } :
           Commit(updateSnapRotation(tweened))
    /\ UNCHANGED << booted, loadState, thresholds, pendingIframeActions, now,
                    inputsLeft, earlyActions, replayed, bounds, meshMaterials, windowLoaded,
                    readySent, dropped >>

\* animate, lines 913-919: one frame, controls.update() first
Tick ==
    /\ booted
    /\ \E updated \in { controlsUpdate(World) } :
       \E snapped \in { updateSnapRotation(updated) } :
           Commit(updateModelAnimations(snapped, now))
    /\ UNCHANGED << booted, loadState, thresholds, pendingIframeActions, now,
                    inputsLeft, earlyActions, replayed, bounds, meshMaterials, windowLoaded,
                    readySent, dropped >>

\* the clock advances
Advance ==
    /\ booted
    /\ \E dt \in ClockSteps : now + dt <= MaxTime /\ now' = now + dt
    /\ UNCHANGED << booted, loadState, currentModel, rotation, isPointerDown,
                    pointerPosition, thresholds, snapRotationState, modelIntroState,
                    opacity, pendingIframeActions, inputsLeft, earlyActions, replayed,
                    camera, uncaught, bounds, meshMaterials, windowLoaded, readySent, dropped >>

Next ==
    \/ ModuleBody
    \/ WindowLoad
    \/ LoadSuccess
    \/ LoadError
    \/ PointerDown
    \/ PointerMove
    \/ PointerUp
    \/ PointerLeave
    \/ Click
    \/ Message
    \/ Tick
    \/ Advance

Spec == Init /\ [][Next]_vars

\* The drag scenario: a model loads and the only inputs are pointer events.
\* The frame loop never stops (requestAnimationFrame(animate), line 918), so
\* frames that change the state keep being taken.
DragNext ==
    \/ ModuleBody
    \/ LoadSuccess
    \/ PointerDown
    \/ PointerMove
    \/ PointerUp
    \/ Tick
    \/ Advance

DragSpec == Init /\ [][DragNext]_vars /\ WF_vars(Tick)

\* The bridge scenario: the viewer runs in a frame of a hosting page and the
\* only inputs are the page's messages; the window's load event is delivered
\* at some point after the module body.
BridgeNext ==
    \/ ModuleBody
    \/ WindowLoad
    \/ LoadSuccess
    \/ LoadError
    \/ Message
    \/ Tick
    \/ Advance

BridgeSpec == Init /\ [][BridgeNext]_vars

\* The press scenario: the only inputs are pointer-downs on the canvas,
\* before, after or without a model.
PressNext ==
    \/ ModuleBody
    \/ LoadSuccess
    \/ LoadError
    \/ PointerDown
    \/ Tick
    \/ Advance

PressSpec == Init /\ [][PressNext]_vars

\* The tilt scenario: a model loads, the tilt buttons are clicked and the
\* pointer is released, cancelled or leaves the canvas without ever having
\* been pressed.  The frame loop never stops (line 918).
TiltClick == \E action \in {"tilt-forward", "tilt-back"} : Dispatch(action)

TiltNext ==
    \/ ModuleBody
    \/ LoadSuccess
    \/ TiltClick
    \/ PointerUp
    \/ PointerLeave
    \/ Tick
    \/ Advance

TiltSpec == Init /\ [][TiltNext]_vars /\ WF_vars(Tick)

\* The quiescence scenario: a model loads, pointer events and clicks arrive
\* until the inputs end, and from then on only frames are taken, each with a
\* later timestamp (requestAnimationFrame(animate), line 918).  The model
\* file arrives and the inputs are made by MaxTime; once they have ended the
\* clock runs on for the longest tween duration, 3 s.
QuietHorizon == MaxTime + Seconds(3, 1)

QuietAdvance ==
    /\ booted
    /\ \E dt \in ClockSteps :
           /\ now + dt <= (IF inputsLeft = 0 /\ loadState # "loading"
                           THEN QuietHorizon ELSE MaxTime)
           /\ now' = now + dt
    /\ UNCHANGED << booted, loadState, currentModel, rotation, isPointerDown,
                    pointerPosition, thresholds, snapRotationState, modelIntroState,
                    opacity, pendingIframeActions, inputsLeft, earlyActions, replayed,
                    camera, uncaught, bounds, meshMaterials, windowLoaded, readySent, dropped >>

\* the buttons clicked in the scenario: the two tilts that rest on a pitch a
\* snap rule matches (the spin and fade channels are started by the load)
QuietClick == \E action \in {"tilt-forward", "tilt-back"} : Dispatch(action)

QuietNext ==
    \/ ModuleBody
    \/ LoadSuccess
    \/ PointerDown
    \/ PointerMove
    \/ PointerUp
    \/ QuietClick
    \/ Tick
    \/ QuietAdvance

QuietSpec == Init /\ [][QuietNext]_vars /\ WF_vars(Tick) /\ WF_vars(QuietAdvance)

-----------------------------------------------------------------------------
(* Camera framing over bounding boxes: the box of the model file is drawn
   from a bounded set, the load callback and the reset-view action apply
   frameObject *)

\* half extents of the drawn boxes, in length units: 0, 0.5, 1, 5, 10
HalfExtents == {0, LenScale \div 2, LenScale, 5 * LenScale, 10 * LenScale}

\* the box of an object without geometry (min = +Infinity, max = -Infinity;
\* only the order of min and max is read)
EmptyBox == CentredBox(-1, -1, -1)

Boxes == { CentredBox(hx, hy, hz) : hx \in HalfExtents, hy \in HalfExtents,
                                     hz \in HalfExtents } \cup {EmptyBox}

FrameInit ==
    /\ booted = TRUE
    /\ loadState = "loading"
    /\ currentModel = FALSE
    /\ rotation = [x |-> 0, y |-> 0]
    /\ isPointerDown = FALSE
    /\ pointerPosition = [x |-> 0, y |-> 0]
    /\ thresholds = ConfiguredThresholds
    /\ snapRotationState = [active |-> FALSE, axis |-> "x", target |-> 0]
    /\ modelIntroState =
         [fade |-> [active |-> FALSE, start |-> 0, duration |-> Seconds(15, 10),
                    materials |-> 0],
          spin |-> [active |-> FALSE, start |-> 0, duration |-> Seconds(3, 1),
                    from |-> 0, to |-> 2 * PI],
          tilt |-> [active |-> FALSE, start |-> 0, duration |-> Seconds(15, 10),
                    from |-> 0, to |-> 0]]
    /\ opacity = TScale
    /\ pendingIframeActions = << >>
    /\ now = 0
    /\ inputsLeft = 1
    /\ earlyActions = << >>
    /\ replayed = << >>
    /\ camera = InitialCamera
    /\ bounds \in Boxes
    /\ meshMaterials \in MaterialCounts
    /\ windowLoaded = FALSE
    /\ readySent = 1
    /\ dropped = 0
    /\ uncaught = FALSE

FrameNext == LoadSuccess \/ Click

FrameSpec == FrameInit /\ [][FrameNext]_vars

-----------------------------------------------------------------------------
(* Snap evaluation over rule lists: the rule list and the pitch are drawn
   from bounded sets, the release handlers apply applyRotationSnap *)

MaxRules == 2

RuleKinds == {"greater", "less", "close", "", "between"}
Rules == [when : RuleKinds, thresholdDeg : {5, 25}, snapDeg : {0, 90}]
RuleLists == UNION { [1..n -> Rules] : n \in 0..MaxRules }

\* pitch values inside the clamp range, in degrees
SnapPitchDeg == {-45, -10, 0, 5, 6, 25, 30, 85, 110}

SnapInit ==
    /\ booted = TRUE
    /\ loadState = "loaded"
    /\ currentModel = TRUE
    /\ \E d \in SnapPitchDeg : rotation = [x |-> degToRad(d), y |-> 2 * PI]
    /\ isPointerDown \in BOOLEAN
    /\ pointerPosition = [x |-> 0, y |-> 0]
    /\ thresholds \in RuleLists
    /\ \E a \in (IF isPointerDown THEN {FALSE} ELSE BOOLEAN) :
          snapRotationState = [active |-> a, axis |-> "x",
                               target |-> IF a THEN degToRad(90) ELSE 0]
    /\ modelIntroState =
         [fade |-> [active |-> FALSE, start |-> 0, duration |-> Seconds(15, 10),
                    materials |-> 1],
          spin |-> [active |-> FALSE, start |-> 0, duration |-> Seconds(3, 1),
                    from |-> 0, to |-> 2 * PI],
          tilt |-> [active |-> FALSE, start |-> 0, duration |-> Seconds(15, 10),
                    from |-> 0, to |-> 0]]
    /\ opacity = TScale
    /\ pendingIframeActions = << >>
    /\ now = Seconds(3, 1)
    /\ inputsLeft = 1
    /\ earlyActions = << >>
    /\ replayed = << >>
    /\ bounds = ModelBox
    /\ meshMaterials = 1
    /\ camera = frameObject([camera |-> InitialCamera]).camera
    /\ windowLoaded = FALSE
    /\ readySent = 1
    /\ dropped = 0
    /\ uncaught = FALSE

SnapNext == PointerUp \/ PointerLeave

SnapSpec == SnapInit /\ [][SnapNext]_vars

-----------------------------------------------------------------------------
(* Claims *)

pitch == rotation.x
yaw == rotation.y

\* C1: whenever a model is loaded, pitch lies in [clampMin, clampMax]
\* = [-45deg, 110deg], whatever pointer events, dispatched actions, model
\* load and frame ticks came before; yaw has no such bound.
C1_PitchClamped ==
    currentModel => (degToRad(-45) <= pitch /\ pitch <= degToRad(110))

\* a drag has been clamped at the upper bound while the intro spin has
\* carried yaw past that bound
C1_Witness ==
    /\ currentModel /\ isPointerDown
    /\ pitch = degToRad(110)
    /\ pointerPosition.y = 500
    /\ yaw > degToRad(110)

\* C2 (as claimed): once a model is current, every model-action message that
\* arrived before it was current has been executed, in arrival order.
C2_EarlyActionsReplayed ==
    currentModel => replayed = earlyActions

\* the kind-by-kind predicate of the claim
C3_Matches(rule, angle) ==
    CASE rule.when = "greater"      -> angle >= degToRad(rule.thresholdDeg)
      [] rule.when = "less"         -> angle <= degToRad(rule.thresholdDeg)
      [] rule.when \in {"close", ""} ->
            Abs(angle - degToRad(rule.snapDeg)) <= degToRad(rule.thresholdDeg)
      [] OTHER                      -> FALSE

C3_Matching == { i \in 1..Len(thresholds) : C3_Matches(thresholds[i], pitch) }

\* C3: for every rule list and every angle, after snap evaluation SnapState
\* is active with the target of the first rule in declaration order that
\* matches, never that of a later matching rule.
C3_FirstMatchWins ==
    (inputsLeft = 0 /\ C3_Matching # {}) =>
        LET first == CHOOSE i \in C3_Matching : \A j \in C3_Matching : i <= j
        IN  /\ snapRotationState.active
            /\ snapRotationState.axis = "x"
            /\ snapRotationState.target = degToRad(thresholds[first].snapDeg)

\* evaluation has run on a list whose two rules both match, with different
\* targets, and the first one's target is installed
C3_Witness ==
    /\ inputsLeft = 0
    /\ Cardinality(C3_Matching) = 2
    /\ thresholds[1].snapDeg # thresholds[2].snapDeg
    /\ snapRotationState.active
    /\ snapRotationState.target = degToRad(thresholds[1].snapDeg)

C4_Between(v, from, to) == (from <= v /\ v <= to) \/ (to <= v /\ v <= from)

C4_Channel(ch, axis) ==
    LET c == modelIntroState[ch] IN
    (c.active /\ currentModel) =>
        /\ now = c.start => rotation'[axis] = c.from
        /\ now >= c.start + c.duration =>
              rotation'[axis] = c.to /\ ~modelIntroState'[ch].active
        /\ now < c.start + c.duration =>
              C4_Between(rotation'[axis], c.from, c.to) /\ modelIntroState'[ch].active

\* C4: a frame tick of an active spin or tilt tween writes exactly `from` at
\* time start, exactly `to` at any time >= start + duration (and the channel
\* becomes inactive), and a value between from and to at every time between.
C4_TweenEndpoints ==
    [][Tick => (C4_Channel("spin", "y") /\ C4_Channel("tilt", "x"))]_vars

\* the spin tween has finished on its target while a tilt tween is strictly
\* between its endpoints
C4_Witness ==
    /\ currentModel
    /\ ~modelIntroState.spin.active /\ yaw = modelIntroState.spin.to
    /\ now >= modelIntroState.spin.start + modelIntroState.spin.duration
    /\ modelIntroState.tilt.active
    /\ now > modelIntroState.tilt.start
    /\ now < modelIntroState.tilt.start + modelIntroState.tilt.duration
    /\ pitch # modelIntroState.tilt.from /\ pitch # modelIntroState.tilt.to
    /\ C4_Between(pitch, modelIntroState.tilt.from, modelIntroState.tilt.to)

C5_Release ==
    (PointerUp /\ currentModel /\ isPointerDown /\ pitch >= degToRad(25)) =>
        (snapRotationState'.active /\ snapRotationState'.target = degToRad(90))

C5_Step ==
    (Tick /\ snapRotationState.active /\ snapRotationState.target = degToRad(90)) =>
        LET delta == degToRad(90) - pitch IN
        IF Abs(delta) <= degToRadTenths(5)
        THEN rotation'.x = degToRad(90) /\ ~snapRotationState'.active
        ELSE /\ Abs(degToRad(90) - rotation'.x) < Abs(delta)
             /\ rotation'.x = pitch + RoundDiv(15 * delta, 100)
             /\ snapRotationState'.active

\* C5: releasing a drag at pitch >= 25deg (30deg in the scenario) activates
\* SnapState with target 90deg; every later frame tick moves pitch 0.15 of
\* the remaining delta closer to 90deg, strictly reducing the distance, until
\* the distance is within 0.5deg, when pitch becomes exactly 90deg and
\* SnapState inactive; with no further input this eventually happens.
C5_SnapConverges ==
    /\ [][C5_Release]_vars
    /\ [][C5_Step]_vars
    /\ (inputsLeft = 0 /\ snapRotationState.active
          /\ snapRotationState.target = degToRad(90))
         ~> (~snapRotationState.active /\ pitch = degToRad(90))

\* the drag of 105 pixels (30.08deg) was released and the snap has converged
C5_Witness ==
    /\ currentModel /\ ~isPointerDown
    /\ pointerPosition = [x |-> 0, y |-> 105]
    /\ inputsLeft = 0
    /\ ~snapRotationState.active /\ snapRotationState.target = degToRad(90)
    /\ pitch = degToRad(90)

C6_Offset(action) ==
    CASE action = "spin" -> degToRad(360)
      [] action = "turn-left" -> degToRad(-90)
      [] action = "turn-right" -> degToRad(90)

C6_Duration(action) ==
    IF action = "spin" THEN 2 * TimeScale ELSE (5 * TimeScale) \div 4

\* C6: with a model loaded, spin / turn-left / turn-right start the spin
\* tween from the yaw at dispatch to that yaw +360deg / -90deg / +90deg over
\* 2s / 1.25s / 1.25s, and the tick at which the duration has elapsed leaves
\* yaw exactly on that target.
C6_SpinActions ==
    [][ /\ \A action \in {"spin", "turn-left", "turn-right"} :
             (Dispatch(action) /\ currentModel) =>
                 modelIntroState'.spin =
                     [active |-> TRUE, start |-> now, duration |-> C6_Duration(action),
                      from |-> yaw, to |-> yaw + C6_Offset(action)]
        /\ (Tick /\ currentModel /\ modelIntroState.spin.active
                 /\ now >= modelIntroState.spin.start + modelIntroState.spin.duration) =>
             (rotation'.y = modelIntroState.spin.to /\ ~modelIntroState'.spin.active)
      ]_vars

\* a quarter turn to the left, dispatched while the intro spin had carried
\* yaw away from 0, has finished 90deg to the left of the yaw at dispatch
C6_Witness ==
    /\ currentModel
    /\ ~modelIntroState.spin.active
    /\ modelIntroState.spin.duration = (5 * TimeScale) \div 4
    /\ modelIntroState.spin.from > 0
    /\ modelIntroState.spin.to = modelIntroState.spin.from - degToRad(90)
    /\ now >= modelIntroState.spin.start + modelIntroState.spin.duration
    /\ yaw = modelIntroState.spin.to

C7_Target(action) ==
    CASE action = "tilt-forward" -> Min(degToRad(25), degToRad(110))
      [] action = "tilt-back" -> Max(degToRad(-25), degToRad(-45))
      [] action = "tilt-neutral" -> 0

C7_Duration(action) ==
    IF action = "tilt-neutral" THEN (9 * TimeScale) \div 10 ELSE TimeScale

\* C7: with a model loaded, tilt-forward / tilt-back / tilt-neutral start the
\* tilt tween from the current pitch to min(25deg, clampMax) /
\* max(-25deg, clampMin) / 0deg over 1s / 1s / 0.9s, and the tween target is
\* always inside [clampMin, clampMax].
C7_TiltActions ==
    [][ /\ \A action \in {"tilt-forward", "tilt-back", "tilt-neutral"} :
             (Dispatch(action) /\ currentModel) =>
                 modelIntroState'.tilt =
                     [active |-> TRUE, start |-> now, duration |-> C7_Duration(action),
                      from |-> pitch, to |-> C7_Target(action)]
        /\ degToRad(-45) <= modelIntroState'.tilt.to
        /\ modelIntroState'.tilt.to <= degToRad(110)
      ]_vars

\* tilt-back has been dispatched from the upper clamp bound
C7_Witness ==
    /\ currentModel
    /\ modelIntroState.tilt.active
    /\ modelIntroState.tilt.from = degToRad(110)
    /\ modelIntroState.tilt.to = degToRad(-25)
    /\ modelIntroState.tilt.duration = TimeScale

\* C8: with a model loaded, reset-view sets Orientation to {yaw 0, pitch 0},
\* and a second reset-view right after it yields {0, 0} again.
C8_ResetIdempotent ==
    /\ [][(Dispatch("reset-view") /\ currentModel) => rotation' = [x |-> 0, y |-> 0]]_vars
    /\ [](currentModel =>
            LET once == handleModelAction(World, "reset-view", now)
                twice == handleModelAction(once, "reset-view", now)
            IN  once.rotation = [x |-> 0, y |-> 0] /\ twice.rotation = once.rotation)

\* reset-view has been dispatched in the middle of a drag that had moved the
\* pitch away from 0
C8_Witness ==
    /\ currentModel /\ isPointerDown
    /\ pointerPosition.y = 105
    /\ inputsLeft = MaxInputs - 3
    /\ rotation = [x |-> 0, y |-> 0]

\* C9 (as claimed): dispatching a name outside the vocabulary changes neither
\* Orientation, SnapState, the tween channels nor the drag state.
C9_UnknownNoOp ==
    [][Dispatch("zoom") =>
         UNCHANGED << rotation, snapRotationState, modelIntroState, opacity,
                      isPointerDown, pointerPosition >>]_vars

\* C9 (amended): dispatching a name outside the vocabulary leaves Orientation,
\* the tween channels and the drag state unchanged, and leaves SnapState
\* unchanged except that active is cleared.
C9_UnknownClearsSnapOnly ==
    [][Dispatch("zoom") =>
         /\ UNCHANGED << rotation, modelIntroState, opacity, isPointerDown,
                         pointerPosition, currentModel >>
         /\ snapRotationState' = [snapRotationState EXCEPT !.active = FALSE]]_vars

\* after tilt-forward finished on 25deg a pointer-up activated the snap to
\* 90deg, the snap moved the pitch on, and the third input stopped it without
\* touching pitch, tilt or spin channel and drag state: an unknown name
C9_Witness ==
    /\ currentModel /\ ~isPointerDown
    /\ inputsLeft = MaxInputs - 3
    /\ ~snapRotationState.active /\ snapRotationState.target = degToRad(90)
    /\ pitch > degToRad(25) /\ pitch < degToRad(90)
    /\ ~modelIntroState.tilt.active
    /\ modelIntroState.tilt.from = 0 /\ modelIntroState.tilt.to = degToRad(25)
    /\ modelIntroState.spin.duration = 3 * TimeScale

\* C10: right after any call of handleModelAction, whatever the action name,
\* SnapState.active is false; so it is after the second call that a
\* model-action message makes.
C10_DispatchClearsSnap ==
    \A action \in ActionNames :
        \E once \in { handleModelAction(World, action, now) } :
            /\ ~once.snapRotationState.active
            /\ ~handleModelAction(once, action, now).snapRotationState.active

\* a snap to 90deg was pending after tilt-forward and a pointer-up, and
\* reset-view has cleared it
C10_Witness ==
    /\ currentModel /\ ~isPointerDown
    /\ inputsLeft = MaxInputs - 3
    /\ ~snapRotationState.active /\ snapRotationState.target = degToRad(90)
    /\ pitch = 0
    /\ modelIntroState.tilt.to = degToRad(25)

\* C11: a dispatch (a button click or a model-action message) made while no
\* model is current after the load has finished changes no program state and
\* is not queued, and the action is never executed later: no model becomes
\* current, nothing is replayed and no tween is started.
C11_LateDispatchDropped ==
    /\ [][ ( /\ ~currentModel /\ loadState = "failed"
             /\ \/ Click
                \/ \E payload \in Payloads :
                       payload.type = "model-action" /\ Deliver(payload) ) =>
            UNCHANGED << loadState, currentModel, rotation, isPointerDown,
                         pointerPosition, snapRotationState, modelIntroState,
                         opacity, camera, pendingIframeActions, replayed >> ]_vars
    /\ [](dropped > 0 =>
            /\ ~currentModel
            /\ pendingIframeActions = << >> /\ replayed = << >>
            /\ ~modelIntroState.spin.active /\ ~modelIntroState.tilt.active
            /\ camera = InitialCamera)

\* after the load failed a message (two calls of the handler) and a click
\* (one call) were dropped, and time has passed
C11_Witness ==
    /\ loadState = "failed" /\ ~currentModel
    /\ dropped = 3
    /\ now > 0
    /\ pendingIframeActions = << >> /\ replayed = << >>

\* C12 (as claimed): the iframe-ready message is posted at most once, and not
\* before the window's load event has been delivered.
C12_ReadyOnceAfterLoad ==
    /\ readySent <= 1
    /\ readySent > 0 => windowLoaded

\* C13: a message whose payload is absent or whose type is not 'model-action'
\* is ignored: the handler is not called, nothing is appended to the pending
\* queue and no state changes.
C13_OtherMessagesIgnored ==
    [][ \A payload \in Payloads :
          (payload.type # "model-action" /\ Deliver(payload)) =>
              UNCHANGED << booted, loadState, currentModel, rotation, isPointerDown,
                           pointerPosition, thresholds, snapRotationState,
                           modelIntroState, opacity, pendingIframeActions, now,
                           earlyActions, replayed, camera, uncaught, bounds, meshMaterials, windowLoaded,
                           readySent, dropped >> ]_vars

\* every message of the hosting page has been delivered, none of them was a
\* model-action request (such a request finds no model and is recorded), and
\* nothing has been queued or dispatched
C13_Witness ==
    /\ loadState = "failed"
    /\ inputsLeft = 0
    /\ earlyActions = << >> /\ dropped = 0
    /\ pendingIframeActions = << >>
    /\ windowLoaded

\* C14: when snap evaluation runs with a model loaded and no rule matches the
\* current pitch, SnapState.active is false afterwards, also when it was true
\* before; for the configured rules no rule matches exactly when
\* 5deg < pitch < 25deg.
C14_NoMatchClearsSnap ==
    /\ [][ ((PointerUp \/ PointerLeave) /\ currentModel /\ C3_Matching = {}) =>
             ~snapRotationState'.active ]_vars
    /\ [](thresholds = ConfiguredThresholds =>
            (C3_Matching = {} <=> (degToRad(5) < pitch /\ pitch < degToRad(25))))

\* a snap towards 90deg was active when evaluation ran at pitch 6deg under
\* the configured rules, and it has been cleared
C14_Witness ==
    /\ inputsLeft = 0
    /\ thresholds = ConfiguredThresholds
    /\ pitch = degToRad(6)
    /\ ~snapRotationState.active
    /\ snapRotationState.target = degToRad(90)

\* C15 (as claimed): a pointer-up, pointer-cancel or pointer-leave received
\* while no drag is in progress does not run snap evaluation: it leaves
\* SnapState unchanged.
C15_IdleReleaseKeepsSnap ==
    [][ ((PointerUp \/ PointerLeave) /\ ~isPointerDown) =>
          UNCHANGED snapRotationState ]_vars

C16_MaxDim == LET size == getSize(bounds) IN Max(size.x, Max(size.y, size.z))

\* C16 (as claimed): when the bounding box has maxDim = 0 the camera distance
\* computed by the framing is a positive minimum constant, not 0, so that the
\* framed camera, placed at that distance in front of the model, is never at
\* the origin.
C16_DegenerateDistancePositive ==
    (currentModel /\ C16_MaxDim = 0) =>
        /\ cameraDistance(C16_MaxDim) > 0
        /\ camera.position = [x |-> 0, y |-> 0, z |-> cameraDistance(C16_MaxDim)]

\* C17: for every bounding box frameObject sets near = max(distance / 1000,
\* 0.01) and far = max(distance * 100, 2000), so near >= 0.01, far >= 2000
\* and near < far; for the box (-1,-1,-1)..(1,1,1) at fov 60deg the distance
\* is positive (2.598) with near < distance < far.
C17_ClipPlanes ==
    currentModel =>
        LET distance == cameraDistance(C16_MaxDim) IN
        /\ camera.near = Max(RoundDiv(distance, 1000), LenScale \div 100)
        /\ camera.far = Max(distance * 100, 2000 * LenScale)
        /\ camera.near >= LenScale \div 100
        /\ camera.far >= 2000 * LenScale
        /\ camera.near < camera.far
        /\ bounds = ModelBox =>
              /\ distance = RoundDiv(2598 * LenScale, 1000)
              /\ camera.position = [x |-> 0, y |-> 0, z |-> distance]
              /\ camera.near < distance /\ distance < camera.far

\* the model with the box (-1,-1,-1)..(1,1,1) has been loaded and framed:
\* the camera is at distance 2.598 with near 0.01 and far 2000
C17_Witness ==
    /\ currentModel /\ bounds = ModelBox
    /\ camera.position = [x |-> 0, y |-> 0, z |-> 2598]
    /\ camera.near = 10 /\ camera.far = 2000000

\* C18: a pointer-down with a model present starts a drag and sets
\* SnapState.active to false; from then until the drag ends SnapState stays
\* inactive (while a drag is in progress SnapState is inactive).
C18_DragCancelsSnap ==
    /\ [][ (PointerDown /\ currentModel) =>
             (isPointerDown' /\ ~snapRotationState'.active) ]_vars
    /\ [](isPointerDown => ~snapRotationState.active)

\* a snap towards 90deg was under way, between 25deg and 90deg, when the
\* pointer went down; the drag is in progress and the snap is stopped
C18_Witness ==
    /\ currentModel /\ isPointerDown
    /\ inputsLeft = MaxInputs - 3
    /\ ~snapRotationState.active /\ snapRotationState.target = degToRad(90)
    /\ pitch > degToRad(25) /\ pitch < degToRad(90)
    /\ pointerPosition.y = 500

\* k = 0.005 rad per pixel
C19_K == (5 * RadScale) \div 1000

\* C19: a pointer-move during a drag with pointer delta (dx, dy) adds dx * k
\* to yaw and dy * k to pitch (k = 0.005), clamps pitch into
\* [-45deg, 110deg], leaves yaw unclamped and stores the pointer position; a
\* pointer-move with no drag in progress or with no model changes neither
\* Orientation nor the stored pointer position.
C19_DragStep ==
    [][ PointerMove =>
          IF isPointerDown /\ currentModel
          THEN \E event \in MoveEvents :
                  LET dx == event.clientX - pointerPosition.x
                      dy == event.clientY - pointerPosition.y
                  IN  /\ rotation'.y = yaw + dx * C19_K
                      /\ rotation'.x = Max(degToRad(-45),
                                           Min(degToRad(110), pitch + dy * C19_K))
                      /\ pointerPosition' = [x |-> event.clientX, y |-> event.clientY]
          ELSE UNCHANGED << rotation, pointerPosition >> ]_vars

\* after the intro spin had finished on 360deg, a drag from (0, 0) to
\* (100, 40) has added 0.5 rad to yaw and 0.2 rad to pitch
C19_Witness ==
    /\ currentModel /\ isPointerDown
    /\ pointerPosition = [x |-> 100, y |-> 40]
    /\ ~modelIntroState.spin.active
    /\ yaw = 2 * PI + 100 * C19_K
    /\ pitch = 40 * C19_K

C20_Finishes(ch, axis) ==
    LET c == modelIntroState[ch] IN
    c.active =>
        IF now >= c.start + c.duration
        THEN rotation'[axis] = c.to /\ ~modelIntroState'[ch].active
        ELSE C4_Between(rotation'[axis], c.from, c.to)

\* C20: starting a spin or tilt tween while the same channel is active is a
\* silent restart: start, duration, from and to are overwritten with from =
\* the axis value at that moment, the channel stays active and Orientation
\* is not touched; the frames that follow stay between the new from and the
\* new to and finish on the new to, the one of the latest start.
C20_SilentRestart ==
    [][ /\ \A action \in {"spin", "turn-left", "turn-right"} :
             (currentModel /\ modelIntroState.spin.active /\ Dispatch(action)) =>
                 /\ modelIntroState'.spin =
                       [active |-> TRUE, start |-> now, duration |-> C6_Duration(action),
                        from |-> yaw, to |-> yaw + C6_Offset(action)]
                 /\ UNCHANGED << rotation, currentModel >>
        /\ \A action \in {"tilt-forward", "tilt-back", "tilt-neutral"} :
             (currentModel /\ modelIntroState.tilt.active /\ Dispatch(action)) =>
                 /\ modelIntroState'.tilt =
                       [active |-> TRUE, start |-> now, duration |-> C7_Duration(action),
                        from |-> pitch, to |-> C7_Target(action)]
                 /\ UNCHANGED << rotation, currentModel >>
        /\ (currentModel /\ inputsLeft' = inputsLeft /\ Tick) =>
              (C20_Finishes("spin", "y") /\ C20_Finishes("tilt", "x"))
      ]_vars

\* tilt-back was dispatched while tilt-forward was on its way from 0deg to
\* 25deg; the tween has finished on -25deg
C20_Witness ==
    /\ currentModel
    /\ ~modelIntroState.tilt.active
    /\ modelIntroState.tilt.from > 0
    /\ modelIntroState.tilt.from < degToRad(25)
    /\ modelIntroState.tilt.to = degToRad(-25)
    /\ now >= modelIntroState.tilt.start + modelIntroState.tilt.duration
    /\ pitch = degToRad(-25)

\* the value the tilt block writes at the current time
C21_TiltValue ==
    LET c == modelIntroState.tilt IN
    IF now >= c.start + c.duration THEN c.to
    ELSE Lerp(c.from, c.to, easeInOutCubic(Progress(c.start, c.duration, now)))

\* C21: within a frame the snap step runs before the tweens, so in a frame
\* where SnapState (on pitch) and the tilt tween are both active the pitch at
\* the end of the frame is the tilt tween's value for that time, not the
\* output of the snap step.
C21_TweenAfterSnap ==
    [][ ( /\ currentModel
          /\ snapRotationState.active /\ modelIntroState.tilt.active
          /\ inputsLeft' = inputsLeft
          /\ Tick ) => rotation'.x = C21_TiltValue ]_vars

\* a pointer-up at 25deg started a snap to 90deg while tilt-neutral was
\* starting; a later frame ran with both active and left the pitch on the
\* tween's value, below 25deg, not on the snap step's, above it
C21_Witness ==
    /\ currentModel
    /\ snapRotationState.active /\ snapRotationState.target = degToRad(90)
    /\ modelIntroState.tilt.active /\ modelIntroState.tilt.to = 0
    /\ now > modelIntroState.tilt.start
    /\ pitch < degToRad(25)
    /\ pitch = C21_TiltValue

C22_BothActive == snapRotationState.active /\ modelIntroState.tilt.active

\* C22 (as claimed): SnapState and the tilt tween are never active at the
\* same time.
C22_NeverBothActive == ~C22_BothActive

\* C22 (amended): the start of a tilt tween leaves SnapState inactive, and
\* SnapState and the tilt tween become active together in one way only: a
\* pointer-up, pointer-cancel or pointer-leave that runs snap evaluation
\* while the tilt tween is active.
C22_BothOnlyByRelease ==
    [][ /\ (modelIntroState'.tilt.active /\ modelIntroState'.tilt # modelIntroState.tilt) =>
             ~snapRotationState'.active
        /\ (~C22_BothActive /\ C22_BothActive') =>
             /\ modelIntroState.tilt.active /\ ~snapRotationState.active
             /\ UNCHANGED modelIntroState
             /\ PointerUp \/ PointerLeave ]_vars

\* right after tilt-forward was dispatched at pitch 0 a pointer event ran
\* snap evaluation: the snap to 0deg and the tween to 25deg are both active
C22_Witness ==
    /\ currentModel /\ ~isPointerDown
    /\ C22_BothActive
    /\ snapRotationState.target = 0
    /\ modelIntroState.tilt.from = 0 /\ modelIntroState.tilt.to = degToRad(25)
    /\ now = modelIntroState.tilt.start

\* C23: the pending queue is flushed once: the flush (the module body) runs
\* once, after it the queue is empty and nothing is appended to it again,
\* later messages going straight to the dispatcher, and the actions the flush
\* passed to the dispatcher are never passed again.
C23_FlushedOnce ==
    /\ [](booted => pendingIframeActions = << >>)
    /\ [][ booted => (booted' /\ pendingIframeActions' = << >>
                               /\ replayed' = replayed) ]_vars

\* after the flush a spin request of the hosting page went straight to the
\* dispatcher: the 2 s spin runs and the queue is empty
C23_Witness ==
    /\ booted /\ currentModel
    /\ pendingIframeActions = << >> /\ replayed = << >>
    /\ modelIntroState.spin.active
    /\ modelIntroState.spin.duration = Seconds(2, 1)
    /\ modelIntroState.spin.to = modelIntroState.spin.from + 2 * PI

\* the result of snap evaluation at the current pitch
C24_Evaluated ==
    IF C3_Matching = {}
    THEN [snapRotationState EXCEPT !.active = FALSE]
    ELSE LET first == CHOOSE i \in C3_Matching : \A j \in C3_Matching : i <= j
         IN  [active |-> TRUE, axis |-> "x",
              target |-> degToRad(thresholds[first].snapDeg)]

\* C24: a pointer-up or pointer-cancel always ends with no drag in progress
\* and, with a model loaded, with the snap-evaluation result for the final
\* pitch installed in SnapState, also when releasing the pointer capture
\* throws; that exception never leaves the handler.
C24_ReleaseEndsIdle ==
    /\ [][ PointerUp =>
             /\ ~isPointerDown'
             /\ rotation' = rotation
             /\ currentModel => snapRotationState' = C24_Evaluated
             /\ uncaught' = uncaught ]_vars

\* a drag of 105 pixels has been released above 25deg: no drag in progress,
\* the snap to 90deg installed and under way
C24_Witness ==
    /\ currentModel /\ ~isPointerDown
    /\ pointerPosition = [x |-> 0, y |-> 105]
    /\ snapRotationState.active /\ snapRotationState.target = degToRad(90)
    /\ pitch > degToRad(30) /\ pitch < degToRad(90)
    /\ ~uncaught

\* C25: at the moment a newly loaded model becomes current its Orientation
\* is {yaw 0, pitch 0} and the intro animation has started: the fade channel
\* is active with the opacity of every material of the file's meshes 0 (a
\* file without such a material has none to set), the spin channel is active
\* from 0 to +360deg over 3 s, and the tilt channel is inactive.
C25_LoadStartsIntro ==
    [][ LoadSuccess =>
          /\ currentModel' /\ ~currentModel
          /\ rotation' = [x |-> 0, y |-> 0]
          /\ modelIntroState'.fade.active
          /\ modelIntroState'.fade.start = now
          /\ modelIntroState'.fade.materials = meshMaterials
          /\ (meshMaterials > 0 => opacity' = 0)
          /\ modelIntroState'.spin =
                [active |-> TRUE, start |-> now, duration |-> 3 * TimeScale,
                 from |-> 0, to |-> degToRad(360)]
          /\ ~modelIntroState'.tilt.active ]_vars

\* the model has just become current: nothing has been drawn yet
C25_Witness ==
    /\ currentModel /\ loadState = "loaded"
    /\ modelIntroState.fade.materials > 0
    /\ rotation = [x |-> 0, y |-> 0]
    /\ opacity = 0
    /\ modelIntroState.fade.active
    /\ modelIntroState.spin.active /\ modelIntroState.spin.start = now
    /\ ~modelIntroState.tilt.active
    /\ ~snapRotationState.active

\* C26: the opacity the fade channel writes is within [0, 1] on every frame,
\* and the frame at which the fade's duration has elapsed leaves the opacity
\* exactly 1 and the fade channel inactive; a fade over no material writes
\* no opacity and ends at the same frame.
C26_OpacityBounded ==
    /\ [](0 <= opacity /\ opacity <= TScale)
    /\ [][ ( /\ currentModel /\ modelIntroState.fade.active
              /\ inputsLeft' = inputsLeft
              /\ Tick ) =>
             IF now >= modelIntroState.fade.start + modelIntroState.fade.duration
             THEN opacity' = TScale /\ ~modelIntroState'.fade.active
             ELSE modelIntroState'.fade.active
                  /\ opacity' = IF modelIntroState.fade.materials = 0 THEN opacity
                                ELSE easeInOutCubic(
                                       ((now - modelIntroState.fade.start) * TScale)
                                           \div modelIntroState.fade.duration) ]_vars

\* the fade has finished: 1.5 s have passed since the load, the opacity is 1
\* and the channel is inactive while the intro spin is still running
C26_Witness ==
    /\ currentModel
    /\ modelIntroState.fade.materials > 0
    /\ ~modelIntroState.fade.active
    /\ now >= modelIntroState.fade.start + modelIntroState.fade.duration
    /\ opacity = TScale
    /\ modelIntroState.spin.active /\ modelIntroState.spin.to = 2 * PI

\* C27: a pointer-down while no model is current starts no drag and changes
\* no state (drag flag, stored pointer position, SnapState and Orientation
\* are unchanged); hence a drag in progress implies a current model.
C27_PressNeedsModel ==
    /\ [][ (PointerDown /\ ~currentModel) =>
             UNCHANGED << isPointerDown, pointerPosition, snapRotationState,
                          rotation, modelIntroState, currentModel >> ]_vars
    /\ [](isPointerDown => currentModel)

\* the load has failed and every pointer-down, those at (0, 500) among them,
\* has been delivered: no drag, the stored position still (0, 0)
C27_Witness ==
    /\ loadState = "failed" /\ ~currentModel
    /\ inputsLeft = 0
    /\ ~isPointerDown
    /\ pointerPosition = [x |-> 0, y |-> 0]
    /\ ~snapRotationState.active

\* the value the block of a spin or tilt channel writes at the current time
C28_TweenValue(ch) ==
    LET c == modelIntroState[ch] IN
    IF now >= c.start + c.duration THEN c.to
    ELSE Lerp(c.from, c.to, easeInOutCubic(Progress(c.start, c.duration, now)))

\* C28: reset-view leaves the fade, spin and tilt channels unchanged; if a
\* spin or tilt tween is active, the next frame overwrites the reset yaw or
\* pitch with the tween's value, so Orientation does not stay {0, 0}.
C28_ResetKeepsTweens ==
    [][ /\ (currentModel /\ Dispatch("reset-view")) =>
             /\ UNCHANGED << modelIntroState, opacity >>
             /\ rotation' = [x |-> 0, y |-> 0]
        /\ (currentModel /\ inputsLeft' = inputsLeft /\ Tick) =>
             /\ modelIntroState.spin.active => rotation'.y = C28_TweenValue("spin")
             /\ modelIntroState.tilt.active => rotation'.x = C28_TweenValue("tilt")
      ]_vars

\* reset-view was dispatched during the intro spin, in a drag that had
\* raised the pitch; the pitch is still 0 but the next frame has put yaw
\* back on the spin's value
C28_Witness ==
    /\ currentModel /\ isPointerDown
    /\ pointerPosition.y = 105
    /\ inputsLeft = MaxInputs - 3
    /\ pitch = 0
    /\ modelIntroState.spin.active
    /\ yaw # 0 /\ yaw = C28_TweenValue("spin")

\* the frame at or after the end of an active spin or tilt tween writes the
\* tween's target and deactivates the channel
C29_EndsAtTarget(ch, value) ==
    (modelIntroState[ch].active
       /\ now >= modelIntroState[ch].start + modelIntroState[ch].duration) =>
        /\ value = modelIntroState[ch].to
        /\ ~modelIntroState'[ch].active

\* C29: pointer-down and pointer-move leave the fade, spin and tilt channels
\* unchanged; during a drag the next frame overwrites the dragged yaw or
\* pitch with the value of that axis's active tween, and the tween's last
\* frame leaves the axis on the tween's target.
C29_DragKeepsTweens ==
    [][ /\ (PointerDown \/ PointerMove) => UNCHANGED << modelIntroState, opacity >>
        /\ (currentModel /\ isPointerDown /\ inputsLeft' = inputsLeft /\ Tick) =>
             /\ modelIntroState.spin.active => rotation'.y = C28_TweenValue("spin")
             /\ modelIntroState.tilt.active => rotation'.x = C28_TweenValue("tilt")
             /\ C29_EndsAtTarget("spin", rotation'.y)
             /\ C29_EndsAtTarget("tilt", rotation'.x)
      ]_vars

\* the only two inputs were a press at (0, 0) and a move to (100, 40) that
\* added 100 px of yaw during the intro spin; the spin has finished and yaw
\* is exactly the spin's target, while the dragged pitch is kept
C29_Witness ==
    /\ currentModel /\ isPointerDown
    /\ inputsLeft = MaxInputs - 2
    /\ pointerPosition = [x |-> 100, y |-> 40]
    /\ ~modelIntroState.spin.active
    /\ modelIntroState.spin.to = 2 * PI
    /\ yaw = 2 * PI
    /\ pitch = 40 * C19_K

\* the state one run of the handler leaves for the given action
C30_Once(action) == handleModelAction(World, action, now)

\* C30: with the handler installed, a model-action message runs
\* handleModelAction once per registered message listener, twice in all, and
\* for every action name the state after the two runs with no frame between
\* them is the state after one run.
C30_TwiceIsOnce ==
    /\ [](\A action \in ActionNames :
             \E once \in {C30_Once(action)} :
                 handleModelAction(once, action, now) = once)
    /\ [][\A payload \in Payloads :
             (booted /\ payload.type = "model-action" /\ Deliver(payload)) =>
                 /\ World' = C30_Once(payload.action)
                 /\ (loadState = "failed") => (dropped' = dropped + 2)
         ]_vars

\* one spin message has been delivered to a loaded model: the two runs left
\* a 2 s spin of exactly one turn from the yaw it started at
C30_Witness ==
    /\ booted /\ currentModel
    /\ inputsLeft = MaxInputs - 1
    /\ modelIntroState.spin.active
    /\ modelIntroState.spin.duration = Seconds(2, 1)
    /\ modelIntroState.spin.to = modelIntroState.spin.from + 2 * PI
    /\ ~snapRotationState.active

\* the release of a drag decides by the pitch it is released at
C31_Release ==
    (currentModel /\ isPointerDown /\ PointerUp) =>
        /\ rotation' = rotation
        /\ IF pitch >= degToRad(25)
           THEN snapRotationState'.active /\ snapRotationState'.target = degToRad(90)
           ELSE IF pitch <= degToRad(5)
           THEN snapRotationState'.active /\ snapRotationState'.target = 0
           ELSE ~snapRotationState'.active

\* a frame with neither a snap nor a tilt tween leaves the pitch alone
C31_Rest ==
    (currentModel /\ ~snapRotationState.active /\ ~modelIntroState.tilt.active /\ Tick) =>
        (rotation'.x = rotation.x /\ ~snapRotationState'.active)

\* C31: with the configured rules, a drag released at pitch p and followed
\* by frames with no further input and no tilt tween ends at exactly 90deg
\* if p >= 25deg, at exactly 0deg if p <= 5deg (negative p included), and
\* for 5deg < p < 25deg SnapState is inactive and the pitch stays p.
C31_ReleaseOutcome ==
    /\ [][C31_Release]_vars
    /\ [][C31_Rest]_vars
    /\ (inputsLeft = 0 /\ snapRotationState.active
          /\ snapRotationState.target = degToRad(90))
         ~> [](~snapRotationState.active /\ pitch = degToRad(90))
    /\ (inputsLeft = 0 /\ snapRotationState.active /\ snapRotationState.target = 0)
         ~> [](~snapRotationState.active /\ pitch = 0)

\* a drag down to the lower clamp was released as the last input and the
\* snap is on its way from the negative pitch up to 0deg
C31_Witness ==
    /\ currentModel /\ ~isPointerDown
    /\ inputsLeft = 0
    /\ pointerPosition = [x |-> 0, y |-> 0]
    /\ snapRotationState.active /\ snapRotationState.target = 0
    /\ pitch < 0 /\ pitch > degToRad(clampDeg.min)

\* the pitch a finished tilt-forward or tilt-back tween rests at
C32_Resting ==
    /\ currentModel /\ ~modelIntroState.tilt.active
    /\ modelIntroState.tilt.to \in {degToRad(25), degToRad(-25)}
    /\ pitch = modelIntroState.tilt.to

\* the snap angle the configured rules give for a resting pitch
C32_Target == IF pitch = degToRad(25) THEN degToRad(90) ELSE 0

\* C32: the pitch tilt-forward rests at (25deg) satisfies the inclusive
\* 'greater' rule and the one tilt-back rests at (-25deg) the 'less' rule:
\* once such a tilt has completed, a pointer-up, pointer-cancel or
\* pointer-leave, with or without a drag, activates a snap, and the snap then
\* moves the pitch to 90deg or 0deg respectively.
C32_ReleaseAfterTiltSnaps ==
    /\ [][(C32_Resting /\ (PointerUp \/ PointerLeave)) =>
             /\ snapRotationState'.active
             /\ snapRotationState'.target = C32_Target
             /\ rotation' = rotation]_vars
    /\ [][(currentModel /\ modelIntroState.tilt.active
              /\ modelIntroState.tilt.to \in {degToRad(25), degToRad(-25)}
              /\ now >= modelIntroState.tilt.start + modelIntroState.tilt.duration
              /\ Tick) => C32_Resting']_vars
    /\ \A target \in {0, degToRad(90)} :
           (inputsLeft = 0 /\ ~modelIntroState.tilt.active
              /\ snapRotationState.active /\ snapRotationState.target = target)
             ~> [](~snapRotationState.active /\ pitch = target)

\* the only two inputs were a tilt-forward click and a release of a pointer
\* that was never pressed: the tilt has completed, the release found the
\* pitch at 25deg and the snap is moving it up to 90deg
C32_Witness ==
    /\ currentModel /\ ~isPointerDown
    /\ inputsLeft = MaxInputs - 2
    /\ ~modelIntroState.tilt.active
    /\ modelIntroState.tilt.to = degToRad(25)
    /\ snapRotationState.active /\ snapRotationState.target = degToRad(90)
    /\ pitch > degToRad(25) /\ pitch < degToRad(90)

\* no tween channel and no snap is active
C33_Quiet ==
    /\ ~modelIntroState.fade.active
    /\ ~modelIntroState.spin.active
    /\ ~modelIntroState.tilt.active
    /\ ~snapRotationState.active

\* C33: with a model loaded, once no further pointer event, message,
\* dispatch or load occurs and frames keep being taken with advancing time,
\* eventually the fade, spin and tilt channels and SnapState are all
\* inactive, and from then on a frame changes neither the orientation nor
\* the channels.
C33_Quiescence ==
    /\ (currentModel /\ inputsLeft = 0) ~> [](C33_Quiet)
    /\ [][(currentModel /\ C33_Quiet /\ Tick) =>
             (rotation' = rotation /\ opacity' = opacity /\ C33_Quiet')]_vars

\* the inputs ended with a tilt-back running and a snap to 0deg pending;
\* the clock ran on past the last input, the tilt completed at -25deg, the
\* snap brought the pitch back to 0deg and everything is at rest
C33_Witness ==
    /\ currentModel /\ inputsLeft = 0
    /\ now > MaxTime
    /\ C33_Quiet
    /\ modelIntroState.tilt.to = degToRad(-25)
    /\ modelIntroState.tilt.start + modelIntroState.tilt.duration > MaxTime
    /\ snapRotationState.target = 0
    /\ pitch = 0

\* each step of a frame, taken on its own in the current state, leaves the
\* other axis as it is
C34_StepsKeepOtherAxis ==
    /\ updateSnapRotation(World).rotation.y = yaw
    /\ updateTilt(World, now).rotation.y = yaw
    /\ updateSpin(World, now).rotation.x = pitch
    /\ updateFade(World, now).rotation = rotation

\* a whole frame changes the yaw only through the spin channel and the pitch
\* only through the snap and the tilt channel; a snap step on its own moves
\* 0.15 of the delta and pins within 0.5deg
C34_Frame ==
    (currentModel /\ inputsLeft' = inputsLeft /\ Tick) =>
        /\ ~modelIntroState.spin.active => rotation'.y = rotation.y
        /\ (~snapRotationState.active /\ ~modelIntroState.tilt.active) =>
               rotation'.x = rotation.x
        /\ (snapRotationState.active /\ ~modelIntroState.tilt.active) =>
               LET delta == snapRotationState.target - pitch IN
               IF Abs(delta) <= degToRadTenths(5)
               THEN rotation'.x = snapRotationState.target /\ ~snapRotationState'.active
               ELSE /\ rotation'.x = clamp(pitch + RoundDiv(15 * delta, 100),
                                           degToRad(-45), degToRad(110))
                    /\ snapRotationState'.active

\* C34: axis separation.  A snap step and a tilt-tween tick never change
\* the yaw and a spin-tween tick never changes the pitch; in every reachable
\* state SnapState.axis is the pitch axis 'x' and its target is one of the
\* configured snap angles, 0deg or 90deg; the approach rate (0.15) and the
\* epsilon (0.5deg) of the snap step are the same in every frame.
C34_AxisSeparation ==
    /\ [](C34_StepsKeepOtherAxis)
    /\ [](snapRotationState.axis = "x"
            /\ snapRotationState.target \in {0, degToRad(90)})
    /\ [][C34_Frame]_vars

\* a drag released at 30.08deg during the intro spin: the snap has moved the
\* pitch on towards 90deg while, in the same frames, the spin moved the yaw
C34_Witness ==
    /\ currentModel /\ ~isPointerDown
    /\ inputsLeft = 0
    /\ pointerPosition = [x |-> 0, y |-> 105]
    /\ snapRotationState.active /\ snapRotationState.target = degToRad(90)
    /\ ~modelIntroState.tilt.active
    /\ pitch > degToRad(31) /\ pitch < degToRad(90)
    /\ modelIntroState.spin.active
    /\ yaw # 0 /\ yaw = C28_TweenValue("spin")

====
